---- MODULE Spec2Model ----
(***************************************************************************)
(* A model of quick_notes.py: process_video and the moment-selection       *)
(* functions it calls (find_pointing_moments, get_max_frames,              *)
(* generate_continuous_samples), the frame-extraction loop and the         *)
(* summarization step.                                                     *)
(*                                                                         *)
(* Time.  Every time value of the model is an integer number of TICKS of   *)
(* half a second: 0.5 s = 1, DEDUP_THRESHOLD 1.5 s = 3, CONTINUOUS_INTERVAL*)
(* 4 s = 8, 60 s = 120, 180 s = 360.  All the constants of the source are  *)
(* multiples of 0.5 s, so on this grid the float arithmetic of the source  *)
(* (0.5 + 4k, duration - 0.5, differences of two times) is exact.          *)
(***************************************************************************)
EXTENDS Integers, Sequences, FiniteSets, TLC

(***************************************************************************)
(* Program constants.                                                      *)
(***************************************************************************)
POINTING_WORDS ==
    << "this", "that", "here", "there", "these", "those",
       "right here", "over here", "this one", "that one",
       "look", "see", "notice", "check", "watch",
       "button", "color", "element", "icon", "label", "text", "header",
       "section", "panel", "tab", "menu", "dropdown", "field", "input",
       "change", "fix", "update", "move", "add", "remove", "delete",
       "adjust", "modify", "replace", "swap", "resize", "align",
       "wrong", "issue", "problem", "bug", "broken", "needs", "should",
       "doesn't", "isn't", "weird", "off", "bad", "ugly", "confusing" >>

MAX_FRAMES_SHORT == 25
MAX_FRAMES_MEDIUM == 40
MAX_FRAMES_LONG == 60
\* 4 s, in ticks
CONTINUOUS_INTERVAL == 8
\* 1.5 s, in ticks
DEDUP_THRESHOLD == 3
\* the literal 0.5 of generate_continuous_samples (start offset, end margin)
SAMPLE_OFFSET == 1
\* the literals 60 and 180 of get_max_frames, in ticks
SHORT_LIMIT == 120
MEDIUM_LIMIT == 360
\* the literal 50 of text_so_far[-50:]
TEXT_WINDOW == 50
\* the literals 3 and 4 of the context slice [i - 3, i + 4)
CONTEXT_BEFORE == 3
CONTEXT_AFTER == 4

(***************************************************************************)
(* Python's str operations, on TLC strings.                                *)
(***************************************************************************)
Max(a, b) == IF a >= b THEN a ELSE b
Min(a, b) == IF a <= b THEN a ELSE b
Abs(x) == IF x >= 0 THEN x ELSE -x

UpperLetters == "ABCDEFGHIJKLMNOPQRSTUVWXYZ"
LowerLetters == "abcdefghijklmnopqrstuvwxyz"

CharAt(s, i) == SubSeq(s, i, i)

UpperSet == {CharAt(UpperLetters, k) : k \in 1..Len(UpperLetters)}

LowerTable ==
    [c \in UpperSet |->
        CharAt(LowerLetters, CHOOSE k \in 1..Len(UpperLetters) : CharAt(UpperLetters, k) = c)]

\* str.lower() of one character
LowerChar(c) == IF c \in UpperSet THEN LowerTable[c] ELSE c

\* s.lower(), half by half
RECURSIVE Lower(_)
Lower(s) ==
    IF Len(s) = 0 THEN ""
    ELSE IF Len(s) = 1 THEN LowerChar(s)
    ELSE Lower(SubSeq(s, 1, Len(s) \div 2)) \o Lower(SubSeq(s, Len(s) \div 2 + 1, Len(s)))

\* c in chars
InChars(c, chars) == \E k \in 1..Len(chars) : CharAt(chars, k) = c

\* the number of leading characters of s that are in chars
LeadingIn(s, chars) ==
    IF \A k \in 1..Len(s) : InChars(CharAt(s, k), chars) THEN Len(s)
    ELSE (CHOOSE k \in 1..Len(s) :
             /\ ~InChars(CharAt(s, k), chars)
             /\ \A h \in 1..(k - 1) : InChars(CharAt(s, h), chars)) - 1

\* the number of trailing characters of s that are in chars
TrailingIn(s, chars) ==
    IF \A k \in 1..Len(s) : InChars(CharAt(s, k), chars) THEN Len(s)
    ELSE Len(s) - (CHOOSE k \in 1..Len(s) :
                      /\ ~InChars(CharAt(s, k), chars)
                      /\ \A h \in (k + 1)..Len(s) : InChars(CharAt(s, h), chars))

\* s.strip(chars)
Strip(s, chars) ==
    IF LeadingIn(s, chars) = Len(s) THEN ""
    ELSE SubSeq(s, LeadingIn(s, chars) + 1, Len(s) - TrailingIn(s, chars))

\* s.strip(): whitespace
StripWs(s) == Strip(s, " ")

\* p in s
Contains(p, s) == \E k \in 1..(Len(s) - Len(p) + 1) : SubSeq(s, k, k + Len(p) - 1) = p

\* s[-n:]
Tail_n(s, n) == IF Len(s) <= n THEN s ELSE SubSeq(s, Len(s) - n + 1, Len(s))

\* " ".join(w["word"] for w in ws[a - 1 : b]), half by half
RECURSIVE JoinWords(_, _, _)
JoinWords(ws, a, b) ==
    IF a > b THEN ""
    ELSE IF a = b THEN ws[a].word
    ELSE JoinWords(ws, a, (a + b) \div 2) \o " " \o JoinWords(ws, (a + b) \div 2 + 1, b)

(***************************************************************************)
(* Sequence helpers: list slicing and list.sort(key=timestamp).            *)
(***************************************************************************)
\* seq[:n]
Take(seq, n) == SubSeq(seq, 1, Min(Max(n, 0), Len(seq)))

\* sorted(seq, key=lambda m: m["timestamp"]).  Python's sort is stable: the
\* element at position i goes after every element with a smaller timestamp
\* and after the earlier elements with the same timestamp.
SortByTimestamp(seq) ==
    LET n == Len(seq)
        Rank(i) ==
            1 + Cardinality({j \in 1..n :
                                \/ seq[j].timestamp < seq[i].timestamp
                                \/ seq[j].timestamp = seq[i].timestamp /\ j < i})
    IN [p \in 1..n |-> seq[CHOOSE i \in 1..n : Rank(i) = p]]

(***************************************************************************)
(* transcribe_with_timestamps: flattens Whisper's segments into one list   *)
(* of words, stripping the whitespace around each word.                    *)
(***************************************************************************)
StrippedWord(word_info) ==
    [word |-> StripWs(word_info.word), start |-> word_info.start, end |-> word_info.end]

\* the words of segments a..b in order, half by half
RECURSIVE FlattenSegments(_, _, _)
FlattenSegments(segments, a, b) ==
    IF a > b THEN <<>>
    ELSE IF a = b THEN [k \in 1..Len(segments[a]) |-> StrippedWord(segments[a][k])]
    ELSE FlattenSegments(segments, a, (a + b) \div 2)
         \o FlattenSegments(segments, (a + b) \div 2 + 1, b)

transcribe_with_timestamps(whisper_result) ==
    [text |-> whisper_result.text,
     words_with_times |->
         FlattenSegments(whisper_result.segments, 1, Len(whisper_result.segments))]

(***************************************************************************)
(* find_pointing_moments: one iteration of the detection loop, and the     *)
(* test of the deduplication pass.                                         *)
(***************************************************************************)
\* word_info["word"].lower().strip(".,!?")
CleanWord(word_info) == Strip(Lower(word_info.word), ".,!?")

\* True iff some pointer of POINTING_WORDS is in the word or in the last 50
\* characters of the text so far (the loop breaks at the first such pointer)
MatchesPointer(word, text_so_far) ==
    LET window == Lower(Tail_n(text_so_far, TEXT_WINDOW))
    IN \E p \in 1..Len(POINTING_WORDS) :
           \/ Contains(POINTING_WORDS[p], word)
           \/ Contains(POINTING_WORDS[p], window)

\* the moment appended for the word at (1-based) position i
KeywordMoment(words_with_times, i, word) ==
    LET start_idx == Max(0, (i - 1) - CONTEXT_BEFORE)
        end_idx == Min(Len(words_with_times), (i - 1) + CONTEXT_AFTER)
    IN [timestamp |-> words_with_times[i].start,
        word |-> word,
        context |-> StripWs(JoinWords(words_with_times, start_idx + 1, end_idx)),
        source |-> "keyword"]

\* the test that appends m to deduped
KeepsMoment(m, last_kept) == m.timestamp - last_kept.timestamp > DEDUP_THRESHOLD

(***************************************************************************)
(* get_max_frames and generate_continuous_samples.                         *)
(***************************************************************************)
get_max_frames(d) ==
    IF d < SHORT_LIMIT THEN MAX_FRAMES_SHORT
    ELSE IF d < MEDIUM_LIMIT THEN MAX_FRAMES_MEDIUM
    ELSE MAX_FRAMES_LONG

ExistingTimes(existing_moments) ==
    {existing_moments[k].timestamp : k \in 1..Len(existing_moments)}

\* a proximity test that looks only at the keyword moments ahead
HasNearby_Ahead(existing_times, t_now) ==
    \E t \in existing_times : t >= t_now /\ t - t_now < DEDUP_THRESHOLD

\* has_nearby
HasNearby(existing_times, t_now) ==
    \E t \in existing_times : Abs(t - t_now) < DEDUP_THRESHOLD

ContinuousSample(t_now) ==
    [timestamp |-> t_now, word |-> "", context |-> "[continuous sample]",
     source |-> "continuous"]

\* a loop condition without the end margin
SamplerContinues_NoMargin(t_now, d) == t_now < d

\* a loop condition that admits the candidate on the end margin
SamplerContinues_Inclusive(t_now, d) == t_now <= d - SAMPLE_OFFSET

\* the loop condition of the sampler
SamplerContinues(t_now, d) == t_now < d - SAMPLE_OFFSET

(***************************************************************************)
(* process_video, lines 403-423: combine, sort, and trim to the budget.    *)
(***************************************************************************)
CombineMoments(kw, cont) == SortByTimestamp(kw \o cont)

\* continuous_samples after the if of line 412 (reassigned on line 421 only)
TrimContinuous(all, kw, cont, budget) ==
    IF Len(all) > budget /\ ~(Len(kw) >= budget)
    THEN Take(cont, budget - Len(kw))
    ELSE cont

\* a trim that fills one slot too many
TrimMoments_OneTooMany(all, kw, cont, budget) ==
    IF Len(all) > budget
    THEN IF Len(kw) >= budget
         THEN Take(SortByTimestamp(kw), budget + 1)
         ELSE SortByTimestamp(kw \o Take(cont, budget - Len(kw) + 1))
    ELSE all

\* a trim that cuts the sorted list at the budget, whatever the sources
TrimMoments_Oldest(all, kw, cont, budget) == Take(all, budget)

\* all_moments after the if of line 412
TrimMoments(all, kw, cont, budget) ==
    IF Len(all) > budget
    THEN IF Len(kw) >= budget
         THEN Take(SortByTimestamp(kw), budget)
         ELSE SortByTimestamp(kw \o TrimContinuous(all, kw, cont, budget))
    ELSE all

(***************************************************************************)
(* process_video, lines 425-438: the frame-extraction loop over            *)
(* all_moments[:max_frames].  outcome[k] is what extract_frame_at_time     *)
(* returns for the k-th call.                                              *)
(***************************************************************************)
FrameOf(moment, i) ==
    [path |-> i, timestamp |-> moment.timestamp, context |-> moment.context,
     source |-> moment.source]

\* a loop that gives up at the first extraction that fails
ExtractFrames_StopsAtFailure(all, budget, outcome) ==
    LET selected == Take(all, budget)
        made == IF \A k \in 1..Len(selected) : outcome[k] THEN Len(selected)
                ELSE CHOOSE k \in 1..Len(selected) :
                         ~outcome[k] /\ \A h \in 1..(k - 1) : outcome[h]
        succeeded == SelectSeq([k \in 1..made |-> k], LAMBDA k : outcome[k])
    IN [calls |-> [k \in 1..made |->
                      [timestamp |-> selected[k].timestamp, path |-> k - 1,
                       returned |-> outcome[k]]],
        frames |-> [f \in 1..Len(succeeded) |->
                       FrameOf(selected[succeeded[f]], succeeded[f] - 1)]]

\* one call per moment of the slice, in its order; a frame is appended for
\* each call that returns True
ExtractFrames(all, budget, outcome) ==
    LET selected == Take(all, budget)
        succeeded == SelectSeq([k \in 1..Len(selected) |-> k], LAMBDA k : outcome[k])
    IN [calls |-> [k \in 1..Len(selected) |->
                      [timestamp |-> selected[k].timestamp, path |-> k - 1,
                       returned |-> outcome[k]]],
        frames |-> [f \in 1..Len(succeeded) |->
                       FrameOf(selected[succeeded[f]], succeeded[f] - 1)]]

ERROR_NO_KEY == "[ERROR: Set ANTHROPIC_API_KEY env var or create ~/.anthropic_api_key file]"

(***************************************************************************)
(* The inputs: the duration of the video, what Whisper hears in it, and    *)
(* which frame extractions succeed.  Bounds.                               *)
(***************************************************************************)
\* short speeches, enumerated exhaustively: up to this many words
MaxWords == 3
\* regular speeches: up to this many words
MaxPatternWords == 27

\* the gap in ticks between the starts of two consecutive words (and between
\* time 0 and the first word) of a short speech: none, and below, at and
\* above DEDUP_THRESHOLD
SmallGaps == {0, 2, 3, 4}
\* 1 s (no sample fits), 5.5 s, and 9 s (the candidate 8.5 s is the first one
\* the end margin excludes)
SmallDurations == {2, 11, 18}
\* 59.5 s, 60 s, 179.5 s, 180 s, 300 s
BoundaryDurations == {119, 120, 359, 360, 600}
PatternDurations == {119}
PatternGaps == {2, 4, 7, 8}
PatternFirsts == {0, 5}
Durations == SmallDurations \cup PatternDurations \cup BoundaryDurations

CueWord == " This,"
PlainWord == " ok"
LongWord == " pneumonoultramicroscopicsilicovolcanoconiosis"

RECURSIVE SumTo(_, _)
SumTo(f, k) == IF k = 0 THEN 0 ELSE f[k] + SumTo(f, k - 1)

\* result["text"]: what was heard, word after word
RECURSIVE ConcatWords(_, _, _)
ConcatWords(ws, a, b) ==
    IF a > b THEN ""
    ELSE IF a = b THEN ws[a].word
    ELSE ConcatWords(ws, a, (a + b) \div 2) \o ConcatWords(ws, (a + b) \div 2 + 1, b)

\* Whisper's result for a list of heard words: two words to a segment
WhisperResult(ws) ==
    [text |-> ConcatWords(ws, 1, Len(ws)),
     segments |-> [g \in 1..((Len(ws) + 1) \div 2) |->
                      SubSeq(ws, 2 * g - 1, Min(2 * g, Len(ws)))]]

\* a short speech: plain words, then cue words, gaps[k] ticks after the word
\* before
SmallSpeech(gaps, plain) ==
    [k \in 1..Len(gaps) |->
        [word |-> IF k <= plain THEN PlainWord ELSE CueWord,
         start |-> SumTo(gaps, k),
         end |-> SumTo(gaps, k) + 1]]

SmallSpeeches ==
    UNION {{SmallSpeech(gaps, plain) : gaps \in [1..n -> SmallGaps], plain \in 0..n} :
           n \in 0..MaxWords}

\* the word at position k of a regular speech: every word a cue ("cue"), or
\* a cue, two long words that push it out of the 50-character window, and a
\* plain word ("mixed")
PatternWord(style, k) ==
    IF style = "cue" THEN CueWord
    ELSE IF k % 4 = 1 THEN CueWord
    ELSE IF k % 4 = 0 THEN PlainWord
    ELSE LongWord

PatternSpeech(n, first, gap, style) ==
    [k \in 1..n |->
        [word |-> PatternWord(style, k),
         start |-> first + (k - 1) * gap,
         end |-> first + (k - 1) * gap + 1]]

PatternSpeeches ==
    {PatternSpeech(n, first, gap, "cue") :
        n \in 1..MaxPatternWords, first \in PatternFirsts, gap \in PatternGaps}
    \cup {PatternSpeech(n, 0, 2, "mixed") : n \in 1..MaxPatternWords}

\* what may be heard in a video of duration d
Speeches(d) ==
    IF d \in SmallDurations THEN SmallSpeeches
    ELSE IF d \in PatternDurations THEN PatternSpeeches \cup {<<>>}
    ELSE {<<>>}

\* what the n calls of extract_frame_at_time return: True each time, False
\* for one call only, or False from some call on
Outcomes(n) ==
    {[k \in 1..n |-> TRUE]}
    \cup {[k \in 1..n |-> k # bad] : bad \in 1..n}
    \cup {[k \in 1..n |-> k < bad] : bad \in 1..n}

(***************************************************************************)
(* The state of one run of process_video.                                  *)
(***************************************************************************)
VARIABLES
    video,               \* the file, as ffprobe reports it
    pc,                  \* where process_video is
    duration,
    transcript,
    words_with_times,
    i,                   \* find_pointing_moments: the position of the loops
    text_so_far,
    moments,             \* find_pointing_moments: the moments detected
    deduped,
    keyword_moments,
    current_time,        \* generate_continuous_samples
    samples,
    continuous_samples,
    all_moments,
    max_frames,
    frames,
    extract_calls,       \* the calls of extract_frame_at_time made, in order
    analysis,
    files,               \* the files written under run_dir
    result,              \* what process_video returns
    exception            \* the call whose exception ended the run, or "none"

vars == <<video, pc, duration, transcript, words_with_times, i, text_so_far, moments,
          deduped, keyword_moments, current_time, samples, continuous_samples,
          all_moments, max_frames, frames, extract_calls, analysis, files, result,
          exception>>

\* the locals of find_pointing_moments and generate_continuous_samples
finder == <<i, text_so_far, moments, deduped>>
sampler == <<current_time, samples>>
\* what process_video holds from the extraction loop on
output == <<frames, extract_calls, analysis, files, result>>

NoResult == [returned |-> FALSE]

Init ==
    /\ video \in {[duration |-> d] : d \in Durations}
    /\ pc = "get_duration"
    /\ duration = 0
    /\ transcript = ""
    /\ words_with_times = <<>>
    /\ i = 1
    /\ text_so_far = ""
    /\ moments = <<>>
    /\ deduped = <<>>
    /\ keyword_moments = <<>>
    /\ current_time = 0
    /\ samples = <<>>
    /\ continuous_samples = <<>>
    /\ all_moments = <<>>
    /\ max_frames = 0
    /\ frames = <<>>
    /\ extract_calls = <<>>
    /\ analysis = ""
    /\ files = {}
    /\ result = NoResult
    /\ exception = "none"

\* an exception nothing catches: process_video and main end with a traceback
Raise(what) ==
    /\ pc' = "crashed"
    /\ exception' = what

\* line 380
GetVideoDuration ==
    /\ pc = "get_duration"
    /\ duration' = video.duration
    /\ pc' = "extract_audio"
    /\ UNCHANGED <<video, transcript, words_with_times, finder, keyword_moments, sampler,
                   continuous_samples, all_moments, max_frames, output, exception>>

\* line 389, extract_audio returns True
ExtractAudioOk ==
    /\ pc = "extract_audio"
    /\ pc' = "transcribe"
    /\ UNCHANGED <<video, duration, transcript, words_with_times, finder,
                   keyword_moments, sampler, continuous_samples, all_moments, max_frames,
                   output, exception>>

\* line 389, extract_audio returns False: the transcription is skipped
ExtractAudioFails ==
    /\ pc = "extract_audio"
    /\ pc' = "detect"
    /\ UNCHANGED <<video, duration, transcript, words_with_times, finder,
                   keyword_moments, sampler, continuous_samples, all_moments, max_frames,
                   output, exception>>

\* line 390, transcribe_with_timestamps returns
TranscribeOk ==
    /\ pc = "transcribe"
    /\ \E heard \in Speeches(video.duration) :
          LET r == transcribe_with_timestamps(WhisperResult(heard))
          IN /\ transcript' = r.text
             /\ words_with_times' = r.words_with_times
    /\ pc' = "detect"
    /\ UNCHANGED <<video, duration, finder, keyword_moments, sampler, continuous_samples,
                   all_moments, max_frames, output, exception>>

\* line 390, transcribe_with_timestamps raises (whisper missing, the model
\* not loadable, the audio unreadable): nothing catches it
TranscribeRaises ==
    /\ pc = "transcribe"
    /\ Raise("transcribe_with_timestamps")
    /\ UNCHANGED <<video, duration, transcript, words_with_times, finder,
                   keyword_moments, sampler, continuous_samples, all_moments, max_frames,
                   output>>

\* find_pointing_moments lines 149-165: one iteration of the detection loop
DetectWord ==
    /\ pc = "detect"
    /\ i <= Len(words_with_times)
    /\ LET word == CleanWord(words_with_times[i])
           text == text_so_far \o " " \o word
       IN /\ text_so_far' = text
          /\ moments' = IF MatchesPointer(word, text)
                        THEN Append(moments, KeywordMoment(words_with_times, i, word))
                        ELSE moments
    /\ i' = i + 1
    /\ UNCHANGED <<video, pc, duration, transcript, words_with_times, deduped,
                   keyword_moments, sampler, continuous_samples, all_moments, max_frames,
                   output, exception>>

\* find_pointing_moments lines 168-169, and line 396: nothing detected
ReturnNoMoments ==
    /\ pc = "detect"
    /\ i > Len(words_with_times)
    /\ moments = <<>>
    /\ keyword_moments' = <<>>
    /\ pc' = "sample"
    /\ UNCHANGED <<video, duration, transcript, words_with_times, finder, sampler,
                   continuous_samples, all_moments, max_frames, output, exception>>

\* find_pointing_moments line 171
StartDedup ==
    /\ pc = "detect"
    /\ i > Len(words_with_times)
    /\ moments # <<>>
    /\ deduped' = <<moments[1]>>
    /\ i' = 2
    /\ pc' = "dedup"
    /\ UNCHANGED <<video, duration, transcript, words_with_times, text_so_far, moments,
                   keyword_moments, sampler, continuous_samples, all_moments, max_frames,
                   output, exception>>

\* a pass that compares each moment with the one before it, kept or not
DedupMoment_VsPrevious ==
    /\ pc = "dedup"
    /\ i <= Len(moments)
    /\ deduped' = IF KeepsMoment(moments[i], moments[i - 1])
                  THEN Append(deduped, moments[i])
                  ELSE deduped
    /\ i' = i + 1
    /\ UNCHANGED <<video, pc, duration, transcript, words_with_times, text_so_far,
                   moments, keyword_moments, sampler, continuous_samples, all_moments,
                   max_frames, output, exception>>

\* find_pointing_moments lines 172-174: one iteration over moments[1:]
DedupMoment ==
    /\ pc = "dedup"
    /\ i <= Len(moments)
    /\ deduped' = IF KeepsMoment(moments[i], deduped[Len(deduped)])
                  THEN Append(deduped, moments[i])
                  ELSE deduped
    /\ i' = i + 1
    /\ UNCHANGED <<video, pc, duration, transcript, words_with_times, text_so_far,
                   moments, keyword_moments, sampler, continuous_samples, all_moments,
                   max_frames, output, exception>>

\* find_pointing_moments line 176, and line 396
ReturnDeduped ==
    /\ pc = "dedup"
    /\ i > Len(moments)
    /\ keyword_moments' = deduped
    /\ pc' = "sample"
    /\ UNCHANGED <<video, duration, transcript, words_with_times, finder, sampler,
                   continuous_samples, all_moments, max_frames, output, exception>>

\* line 400, generate_continuous_samples lines 194-198
StartSampling ==
    /\ pc = "sample"
    /\ samples' = <<>>
    /\ current_time' = SAMPLE_OFFSET
    /\ pc' = "sampling"
    /\ UNCHANGED <<video, duration, transcript, words_with_times, finder,
                   keyword_moments, continuous_samples, all_moments, max_frames, output,
                   exception>>

\* generate_continuous_samples lines 199-209: one iteration of the while
SampleStep ==
    /\ pc = "sampling"
    /\ SamplerContinues(current_time, duration)
    /\ samples' = IF HasNearby(ExistingTimes(keyword_moments), current_time)
                  THEN samples
                  ELSE Append(samples, ContinuousSample(current_time))
    /\ current_time' = current_time + CONTINUOUS_INTERVAL
    /\ UNCHANGED <<video, pc, duration, transcript, words_with_times, finder,
                   keyword_moments, continuous_samples, all_moments, max_frames, output,
                   exception>>

\* generate_continuous_samples line 211, and line 400
ReturnSamples ==
    /\ pc = "sampling"
    /\ ~SamplerContinues(current_time, duration)
    /\ continuous_samples' = samples
    /\ pc' = "combine"
    /\ UNCHANGED <<video, duration, transcript, words_with_times, finder,
                   keyword_moments, sampler, all_moments, max_frames, output, exception>>

\* lines 403-409
Combine ==
    /\ pc = "combine"
    /\ all_moments' = CombineMoments(keyword_moments, continuous_samples)
    /\ max_frames' = get_max_frames(duration)
    /\ pc' = "trim"
    /\ UNCHANGED <<video, duration, transcript, words_with_times, finder,
                   keyword_moments, sampler, continuous_samples, output, exception>>

\* lines 411-423
Trim ==
    /\ pc = "trim"
    /\ continuous_samples' =
           TrimContinuous(all_moments, keyword_moments, continuous_samples, max_frames)
    /\ all_moments' =
           TrimMoments(all_moments, keyword_moments, continuous_samples, max_frames)
    /\ pc' = "extract_frames"
    /\ UNCHANGED <<video, duration, transcript, words_with_times, finder,
                   keyword_moments, sampler, max_frames, output, exception>>

\* lines 425-438: the whole loop, one call of extract_frame_at_time for each
\* moment of all_moments[:max_frames]
ExtractAllFrames ==
    /\ pc = "extract_frames"
    /\ \E outcome \in Outcomes(Min(Len(all_moments), max_frames)) :
          LET r == ExtractFrames(all_moments, max_frames, outcome)
          IN /\ frames' = r.frames
             /\ extract_calls' = r.calls
    /\ pc' = "analyze"
    /\ UNCHANGED <<video, duration, transcript, words_with_times, finder,
                   keyword_moments, sampler, continuous_samples, all_moments, max_frames,
                   analysis, files, result, exception>>

\* line 441, analyze_with_claude lines 245-247: no API key
AnalyzeNoKey ==
    /\ pc = "analyze"
    /\ analysis' = ERROR_NO_KEY
    /\ pc' = "save"
    /\ UNCHANGED <<video, duration, transcript, words_with_times, finder,
                   keyword_moments, sampler, continuous_samples, all_moments, max_frames,
                   frames, extract_calls, files, result, exception>>

\* line 441, analyze_with_claude lines 249-358: the API answers
AnalyzeOk ==
    /\ pc = "analyze"
    /\ analysis' = "summary"
    /\ pc' = "save"
    /\ UNCHANGED <<video, duration, transcript, words_with_times, finder,
                   keyword_moments, sampler, continuous_samples, all_moments, max_frames,
                   frames, extract_calls, files, result, exception>>

\* line 441, analyze_with_claude line 352: client.messages.create raises (no
\* network, a rejected key, a refused request); no try surrounds it, here or
\* in process_video or main
AnalyzeRaises ==
    /\ pc = "analyze"
    /\ Raise("client.messages.create")
    /\ UNCHANGED <<video, duration, transcript, words_with_times, finder,
                   keyword_moments, sampler, continuous_samples, all_moments, max_frames,
                   output>>

\* lines 443-484
SaveNotes ==
    /\ pc = "save"
    /\ result' = [returned |-> TRUE,
                  duration_seconds |-> duration,
                  transcript |-> transcript,
                  analysis |-> analysis,
                  frames_analyzed |-> Len(frames)]
    /\ files' = {"notes.json", "NOTES.md"}
    /\ pc' = "done"
    /\ UNCHANGED <<video, duration, transcript, words_with_times, finder,
                   keyword_moments, sampler, continuous_samples, all_moments, max_frames,
                   frames, extract_calls, analysis, exception>>

Next ==
    \/ GetVideoDuration
    \/ ExtractAudioOk
    \/ ExtractAudioFails
    \/ TranscribeOk
    \/ TranscribeRaises
    \/ DetectWord
    \/ ReturnNoMoments
    \/ StartDedup
    \/ DedupMoment
    \/ ReturnDeduped
    \/ StartSampling
    \/ SampleStep
    \/ ReturnSamples
    \/ Combine
    \/ Trim
    \/ ExtractAllFrames
    \/ AnalyzeNoKey
    \/ AnalyzeOk
    \/ AnalyzeRaises
    \/ SaveNotes

Spec == Init /\ [][Next]_vars

(***************************************************************************)
(* What the claims speak of.                                               *)
(***************************************************************************)
\* the selection is made: all_moments is what the trim of lines 411-423 left
Selected ==
    \/ pc \in {"extract_frames", "analyze", "save", "done"}
    \/ pc = "crashed" /\ exception = "client.messages.create"

Timestamps(seq) == {seq[k].timestamp : k \in 1..Len(seq)}

\* the moments of seq that come from src, in the order of seq
RECURSIVE FromSource(_, _, _)
FromSource(seq, src, k) ==
    IF k > Len(seq) THEN <<>>
    ELSE (IF seq[k].source = src THEN <<seq[k]>> ELSE <<>>) \o FromSource(seq, src, k + 1)

\* the continuous samples the sampler returned, before any trim: the trim
\* reassigns continuous_samples, the sampler's own list stays as it was
UntrimmedSamples == samples

\* the trim of lines 411-423 had something to cut
TrimWasNeeded == Len(keyword_moments) + Len(UntrimmedSamples) > max_frames

\* C1: once the selection is made, all_moments holds at most 25 moments for
\* a video under 60 s, at most 40 under 180 s and at most 60 otherwise.
C1_BudgetBound ==
    Selected =>
        Len(all_moments) <=
            (IF duration < 120 THEN 25 ELSE IF duration < 360 THEN 40 ELSE 60)

\* C1 witness: a short video with more deduplicated keyword moments than its
\* budget of 25, cut to exactly 25.
C1_Witness ==
    /\ Selected
    /\ duration < 120
    /\ Len(keyword_moments) > 25
    /\ Len(all_moments) = 25

\* C2: whenever the deduplicated keyword moments do not exceed the budget,
\* the keyword moments of the selection are exactly the deduplicated keyword
\* moments, all of them and in their order; only continuous samples are cut.
C2_KeywordsPreserved ==
    (Selected /\ Len(keyword_moments) <= get_max_frames(duration)) =>
        /\ FromSource(all_moments, "keyword", 1) = keyword_moments
        /\ Timestamps(FromSource(all_moments, "continuous", 1))
               \subseteq Timestamps(UntrimmedSamples)

\* C2 witness: the trim cut continuous samples while keyword moments, fewer
\* than the budget, lie later than the last continuous sample kept.
C2_Witness ==
    /\ Selected
    /\ TrimWasNeeded
    /\ Len(keyword_moments) > 0
    /\ Len(keyword_moments) < max_frames
    /\ Len(continuous_samples) < Len(UntrimmedSamples)
    /\ Len(continuous_samples) > 0
    /\ keyword_moments[Len(keyword_moments)].timestamp
           > continuous_samples[Len(continuous_samples)].timestamp

\* the largest stretch, in ticks, between SAMPLE_OFFSET and
\* duration - SAMPLE_OFFSET that holds no timestamp of seq (seq sorted)
RECURSIVE LargestGapFrom(_, _, _, _)
LargestGapFrom(seq, k, previous, last) ==
    IF k > Len(seq) THEN Max(0, last - previous)
    ELSE IF seq[k].timestamp > last THEN Max(0, last - previous)
    ELSE IF seq[k].timestamp < previous THEN LargestGapFrom(seq, k + 1, previous, last)
    ELSE Max(seq[k].timestamp - previous,
             LargestGapFrom(seq, k + 1, seq[k].timestamp, last))

LargestGap(seq) == LargestGapFrom(seq, 1, SAMPLE_OFFSET, duration - SAMPLE_OFFSET)

\* C3: once the selection is made, no stretch of the video between 0.5 s and
\* duration - 0.5 s that is longer than CONTINUOUS_INTERVAL is without a
\* selected moment: an interval longer than 4 s free of selected timestamps
\* exists exactly when two neighbouring selected timestamps (or a boundary
\* and its nearest selected timestamp) are more than 4 s apart.
C3_NoLongWindowUnsampled ==
    Selected => LargestGap(all_moments) <= CONTINUOUS_INTERVAL

\* generate_continuous_samples has returned: samples is its result
Sampled == pc \in {"combine", "trim"} \/ Selected

\* C4, as claimed: every moment of find_pointing_moments and of
\* generate_continuous_samples has a timestamp t with 0 <= t < duration.
C4_AllMomentsWithinVideo ==
    Sampled =>
        \A t \in Timestamps(keyword_moments) \cup Timestamps(samples) :
            0 <= t /\ t < duration

\* C4, amended: every continuous sample has 0.5 s <= t < duration - 0.5 s;
\* every keyword moment has the start of one of the words as its timestamp,
\* so 0 <= t, and t < duration whenever every word starts before duration.
C4_SamplesWithinVideo ==
    Sampled =>
        /\ \A t \in Timestamps(samples) :
               SAMPLE_OFFSET <= t /\ t < duration - SAMPLE_OFFSET
        /\ \A t \in Timestamps(keyword_moments) :
               0 <= t /\ \E k \in 1..Len(words_with_times) : words_with_times[k].start = t
        /\ (\A k \in 1..Len(words_with_times) : words_with_times[k].start < duration)
               => \A t \in Timestamps(keyword_moments) : t < duration

\* C4 witness: a keyword moment at or after the duration, beside continuous
\* samples.
C4_Witness ==
    /\ Sampled
    /\ Len(samples) >= 1
    /\ \E t \in Timestamps(keyword_moments) : t >= duration

\* C5: the selection is sorted by timestamp and two neighbours are at least
\* DEDUP_THRESHOLD apart (so are any two of its moments, as it is sorted).
C5_SortedAndSeparated ==
    Selected =>
        \A k \in 1..(Len(all_moments) - 1) :
            /\ all_moments[k].timestamp <= all_moments[k + 1].timestamp
            /\ all_moments[k + 1].timestamp - all_moments[k].timestamp >= DEDUP_THRESHOLD

\* C5 witness: a keyword moment and a continuous sample exactly
\* DEDUP_THRESHOLD apart, in a run whose deduplication dropped a moment.
C5_Witness ==
    /\ Selected
    /\ Len(moments) > Len(keyword_moments)
    /\ \E k \in 1..(Len(all_moments) - 1) :
           /\ all_moments[k].source # all_moments[k + 1].source
           /\ all_moments[k + 1].timestamp - all_moments[k].timestamp = DEDUP_THRESHOLD

\* neighbouring samples are exactly CONTINUOUS_INTERVAL apart
EvenlySpaced(seq) ==
    \A k \in 1..(Len(seq) - 1) :
        seq[k + 1].timestamp - seq[k].timestamp = CONTINUOUS_INTERVAL

\* there are no keyword moments and the video is longer than 1 s
PureCoverage == Sampled /\ keyword_moments = <<>> /\ duration > 2

\* C6, as claimed: without keyword moments and with duration > 1 s, the
\* samples are 4 s apart, the first within 0.5 s of time 0 and the last within
\* 0.5 s of the duration.
C6_CoverageReachesBothEnds ==
    PureCoverage =>
        /\ Len(samples) >= 1
        /\ EvenlySpaced(samples)
        /\ samples[1].timestamp <= SAMPLE_OFFSET
        /\ duration - samples[Len(samples)].timestamp <= SAMPLE_OFFSET

\* C6, amended: without keyword moments and with duration > 1 s, the samples
\* are 4 s apart, the first within 0.5 s of time 0, and the last more than
\* 0.5 s and at most 4.5 s before the duration.
C6_CoverageGrid ==
    PureCoverage =>
        /\ Len(samples) >= 1
        /\ EvenlySpaced(samples)
        /\ 0 <= samples[1].timestamp /\ samples[1].timestamp <= SAMPLE_OFFSET
        /\ duration - samples[Len(samples)].timestamp > SAMPLE_OFFSET
        /\ duration - samples[Len(samples)].timestamp
               <= SAMPLE_OFFSET + CONTINUOUS_INTERVAL

\* C6 witness: a video of words none of which is a cue, with two samples, the
\* next candidate falling exactly on the end margin.
C6_Witness ==
    /\ PureCoverage
    /\ words_with_times # <<>>
    /\ Len(samples) = 2
    /\ samples[2].timestamp + CONTINUOUS_INTERVAL = duration - SAMPLE_OFFSET

\* C7: a failure of the summarization does not end the run with an uncaught
\* exception; the error text is the analysis of the result and both notes
\* files are written.
C7_SummarizationFailureIsNotFatal ==
    /\ ~(pc = "crashed" /\ exception = "client.messages.create")
    /\ (pc = "done" /\ analysis = ERROR_NO_KEY) =>
           /\ result.returned
           /\ result.analysis = ERROR_NO_KEY
           /\ files = {"notes.json", "NOTES.md"}

\* the coverage samples of a video of duration d with no keyword moment
CoverageSamples(d) ==
    [k \in 1..(IF d >= 3 THEN (d - 3) \div CONTINUOUS_INTERVAL + 1 ELSE 0) |->
        [timestamp |-> SAMPLE_OFFSET + (k - 1) * CONTINUOUS_INTERVAL, word |-> "",
         context |-> "[continuous sample]", source |-> "continuous"]]

\* C8: no transcription (the audio extraction fails, the transcription call
\* fails, or no word is heard) does not end the run; with no words there are
\* no keyword moments and the selection is the coverage samples of the
\* duration, cut to the budget.
C8_NoTranscriptionIsNotFatal ==
    /\ ~(pc = "crashed" /\ exception = "transcribe_with_timestamps")
    /\ (Selected /\ words_with_times = <<>>) =>
           /\ keyword_moments = <<>>
           /\ all_moments =
                  Take(CoverageSamples(duration),
                       IF duration < 120 THEN 25 ELSE IF duration < 360 THEN 40 ELSE 60)

\* the extraction loop is over
Extracted ==
    \/ pc \in {"analyze", "save", "done"}
    \/ pc = "crashed" /\ exception = "client.messages.create"

\* the positions of the selection whose extraction returned True
Succeeded ==
    SelectSeq([k \in 1..Len(extract_calls) |-> k], LAMBDA k : extract_calls[k].returned)

\* C9: extract_frame_at_time was called exactly once for each selected
\* moment, in ascending timestamp order, and frames is the selected moments
\* whose call returned True, in their order.
C9_FramesAreTheExtractedMoments ==
    Extracted =>
        /\ Len(extract_calls) = Len(all_moments)
        /\ \A k \in 1..Len(extract_calls) :
               extract_calls[k].timestamp = all_moments[k].timestamp
        /\ \A k \in 1..(Len(extract_calls) - 1) :
               extract_calls[k].timestamp <= extract_calls[k + 1].timestamp
        /\ LET ok == Succeeded
           IN /\ Len(frames) = Len(ok)
              /\ \A f \in 1..Len(frames) :
                     /\ ok[f] <= Len(all_moments)
                     /\ frames[f].timestamp = all_moments[ok[f]].timestamp
                     /\ frames[f].context = all_moments[ok[f]].context
                     /\ frames[f].source = all_moments[ok[f]].source

\* C9 witness: an extraction before the last one failed, and every other
\* moment of a selection of three or more has its frame.
C9_Witness ==
    /\ Extracted
    /\ Len(all_moments) >= 3
    /\ Len(frames) = Len(all_moments) - 1
    /\ \E k \in 1..(Len(extract_calls) - 1) : ~extract_calls[k].returned

\* find_pointing_moments has just returned
DedupReturned == pc = "sample"

\* the position in moments of the k-th kept moment
KeptAt(k) == CHOOSE j \in 1..Len(moments) :
                 /\ moments[j] = keyword_moments[k]
                 /\ \A h \in 1..(j - 1) : moments[h] # keyword_moments[k]

\* the kept moment most recently kept before position j of moments
LastKeptBefore(j) ==
    CHOOSE k \in 1..Len(keyword_moments) :
        /\ KeptAt(k) < j
        /\ \A h \in 1..Len(keyword_moments) : KeptAt(h) < j => h <= k

\* C10: the deduplicated list is an order-preserving subsequence of the
\* detected moments; it is empty when they are, and starts with the first of
\* them otherwise; a later moment is kept iff its timestamp exceeds that of
\* the most recently kept moment by more than DEDUP_THRESHOLD; consecutive
\* kept moments are more than DEDUP_THRESHOLD apart.
C10_GreedyDedup ==
    DedupReturned =>
        /\ moments = <<>> => keyword_moments = <<>>
        /\ moments # <<>> => keyword_moments # <<>> /\ keyword_moments[1] = moments[1]
        /\ \A k \in 1..Len(keyword_moments) :
               \E j \in 1..Len(moments) : moments[j] = keyword_moments[k]
        /\ \A k \in 1..(Len(keyword_moments) - 1) : KeptAt(k) < KeptAt(k + 1)
        /\ \A k \in 1..(Len(keyword_moments) - 1) :
               keyword_moments[k + 1].timestamp - keyword_moments[k].timestamp
                   > DEDUP_THRESHOLD
        /\ moments # <<>> =>
               \A j \in 2..Len(moments) :
                   (\E k \in 1..Len(keyword_moments) : KeptAt(k) = j)
                   <=> (moments[j].timestamp
                            - keyword_moments[LastKeptBefore(j)].timestamp
                        > DEDUP_THRESHOLD)

\* C10 witness: a moment is kept although it is within DEDUP_THRESHOLD of the
\* moment before it, which was dropped.
C10_Witness ==
    /\ DedupReturned
    /\ \E j \in 3..Len(moments) :
           /\ moments[j].timestamp \in Timestamps(keyword_moments)
           /\ moments[j - 1].timestamp \notin Timestamps(keyword_moments)
           /\ moments[j].timestamp - moments[j - 1].timestamp <= DEDUP_THRESHOLD

\* the candidate timestamps of the sampler: 0.5 s + 4 s * k, below the end
\* margin
Candidates ==
    {SAMPLE_OFFSET + k * CONTINUOUS_INTERVAL : k \in 0..duration}
        \cap {c \in 0..duration : c < duration - SAMPLE_OFFSET}

\* generate_continuous_samples has returned
SamplesReturned == pc = "combine"

\* C11: the sampler emits a candidate timestamp iff no deduplicated keyword
\* moment is within DEDUP_THRESHOLD of it, within being the deduplicator's
\* notion: a distance that does not exceed the threshold, so that a candidate
\* exactly 1.5 s from a keyword moment is skipped.
C11_SkipsWithinDedupWindow ==
    SamplesReturned =>
        \A c \in Candidates :
            c \in Timestamps(samples)
            <=> ~ \E m \in Timestamps(keyword_moments) : Abs(m - c) <= DEDUP_THRESHOLD

====
